---- MODULE Spec2Model ----
(***************************************************************************)
(* Model of the Tnua controller's dynamic basis slot and its driver        *)
(* (src/src/controller.rs).                                                *)
(*                                                                         *)
(* A TnuaController holds current_basis: Option<(&'static str,             *)
(* Box<dyn DynamicBasis>)>.  The boxed value is a BoxableBasis<B>; the     *)
(* type parameter B is modelled by a tag (field "type"), the configuration *)
(* by the field "input", the heap allocation made by Box::new by the field *)
(* "id" (<<c, n>> for the n-th box made for the record of character c),    *)
(* and the strategy's internal running state by the field "state" (the     *)
(* number of frames the strategy has been advanced).                       *)
(*                                                                         *)
(* Each frame of the Update schedule runs the chained stages               *)
(* Sensors, SubservientSensors, user controls, Logic, Motors;              *)
(* apply_controller_system runs in the Logic stage.  TnuaController::basis *)
(* is a public method that does not look at the schedule: a caller may     *)
(* invoke it in any stage and between frames.                              *)
(*                                                                         *)
(* The example ui (src/examples/common/ui.rs) is modelled apart from the   *)
(* controller.  One action, UiSystem, is a whole run of ui_system: the     *)
(* set_to loop, then, when the entity's header is open, the widgets of its  *)
(* body in source order.  egui names a widget by its position in its ui    *)
(* and keeps temporary values under (type, widget id).  SpecSelectors runs *)
(* UiSystem on an entity with selectors, SpecSliders on the config fields  *)
(* edited through slider_or_infinity and slider_or_none.                   *)
(***************************************************************************)
EXTENDS Integers, Sequences, FiniteSets, TLC

\* ---------------------------------------------------------------- bounds
MaxTicks == 3
MaxReqs  == 3
MaxUiFrames == 4
NumOptions == 3

\* ---------------------------------------------------------------- domains
\* two characters: one can hold a basis while the other holds none
Chars     == {1, 2}
Types     == {"Walk", "Fall"}
Names     == {"walk", "fall"}
Configs   == {5, 7}
\* the values a caller passes as `basis: B`: the type of the value is the
\* strategy type, its content the configuration
Bases     == {<<"Walk", 5>>, <<"Walk", 7>>, <<"Fall", 7>>}
\* time.delta() in milliseconds; as_secs_f32() of a Duration is 0.0 exactly
\* when the Duration is zero
Durations == {0, 16}

None == [tag |-> "None"]

\* the orders in which query.iter_mut() may yield the characters
Orders == {o \in [1..Cardinality(Chars) -> Chars] :
              \A i, j \in 1..Cardinality(Chars) : o[i] = o[j] => i = j}

VARIABLES
    controllers,   \* query: one TnuaController (its current_basis) per character
    allocs,        \* per character: number of Box::new allocations made for
                   \* its slot so far; the n-th box of record c is <<c, n>>
    delta,         \* Time::delta of the current frame
    stage,         \* position of the schedule inside the current frame
    tick,          \* number of frames started
    reqs,          \* number of basis requests issued so far
    calls,         \* DynamicBasis::apply invocations made by the last step
    last,          \* the operation that produced the current state
    prev,          \* the controllers as they were before that operation
    since,         \* per character: driver passes of non-zero duration since a
                   \* request last found the slot empty or of another type
    discarded,     \* per character and type, the strategy a replacement
                   \* dropped last, as it was then
    passes         \* number of runs of apply_controller_system so far

ctlVars == <<controllers, allocs, delta, stage, tick, reqs, calls, last, prev,
             since, discarded, passes>>

\* examples/common/ui.rs
VARIABLES
    selectors,     \* CommandAlteringSelectors.0 of the tracked entity
    built,         \* the initial settings the selectors were built with
    applied,       \* the applier invocations made so far, in order
    uiFrames,      \* number of ui_system frames run
    panicked,      \* the set_to loop of ui_system panicked: the app is gone
    config,        \* per call site of slider_or_infinity/slider_or_none, the
                   \* field of the config it edits
    freeFall,      \* the variant of config.free_fall_behavior
    memory_data,   \* egui's temp memory: (type, widget id) -> cached number
    sLast,         \* the last ui_system frame: header shown, toggle clicked,
                   \* the id each site's toggle had when last shown
    sPrev,         \* the temp memory before that frame
    sBefore        \* per site, the field when it was last toggled on and the
                   \* temp memory that frame left

selVars == <<selectors, built, applied, uiFrames, panicked>>
sliderVars == <<config, freeFall, memory_data, sLast, sPrev, sBefore>>

vars == <<ctlVars, selVars, sliderVars>>

\* ---------------------------------------------------------------- basis_trait
\* BoxableBasis::new(basis): wraps the configuration, default running state;
\* id names the allocation the box lives in
BoxableBasisNew(type, input, id) ==
    [type |-> type, input |-> input, state |-> 0, id |-> id]

\* DynamicBasis::apply for BoxableBasis<B>: advance the strategy one frame
DynamicBasisApply(b) == [b EXCEPT !.state = @ + 1]

\* b.as_mut_any().downcast_mut::<BoxableBasis<B>>() succeeds
DowncastMut(b, type) == b.type = type

\* ---------------------------------------------------------------- TnuaController
\* #[derive(Default)]: current_basis = None
TnuaControllerDefault == None

IsSome(current_basis) == current_basis.tag = "Some"

\* variants of TnuaController::basis with a defect
\* the in-place branch assigns a new BoxableBasis instead of the input field
BasisResetsStateOnUpdate(current_basis, name, type, input, freshId) ==
    IF IsSome(current_basis) /\ DowncastMut(current_basis.basis, type)
    THEN [current_basis EXCEPT !.name = name, !.basis.input = input, !.basis.state = 0]
    ELSE [tag |-> "Some", name |-> name, basis |-> BoxableBasisNew(type, input, freshId)]

\* no downcast: the slot is replaced on every call
BasisAlwaysReplaces(current_basis, name, type, input, freshId) ==
    [tag |-> "Some", name |-> name, basis |-> BoxableBasisNew(type, input, freshId)]

\* the replacing branch carries the old strategy's running state over
BasisKeepsState(current_basis, name, type, input, freshId) ==
    IF IsSome(current_basis) /\ DowncastMut(current_basis.basis, type)
    THEN [current_basis EXCEPT !.name = name, !.basis.input = input]
    ELSE [tag |-> "Some", name |-> name,
          basis |-> [BoxableBasisNew(type, input, freshId) EXCEPT
                        !.state = IF IsSome(current_basis)
                                  THEN current_basis.basis.state ELSE 0]]

\* a failed downcast of a present strategy only renames it
BasisKeepsOldOnMismatch(current_basis, name, type, input, freshId) ==
    IF IsSome(current_basis)
    THEN IF DowncastMut(current_basis.basis, type)
         THEN [current_basis EXCEPT !.name = name, !.basis.input = input]
         ELSE [current_basis EXCEPT !.name = name]
    ELSE [tag |-> "Some", name |-> name, basis |-> BoxableBasisNew(type, input, freshId)]

\* the in-place branch forgets to assign the input
BasisNoInputUpdate(current_basis, name, type, input, freshId) ==
    IF IsSome(current_basis) /\ DowncastMut(current_basis.basis, type)
    THEN [current_basis EXCEPT !.name = name]
    ELSE [tag |-> "Some", name |-> name, basis |-> BoxableBasisNew(type, input, freshId)]

\* the in-place branch is chosen by the name as well as by the type
BasisDispatchByName(current_basis, name, type, input, freshId) ==
    IF IsSome(current_basis) /\ DowncastMut(current_basis.basis, type)
       /\ current_basis.name = name
    THEN [current_basis EXCEPT !.name = name, !.basis.input = input]
    ELSE [tag |-> "Some", name |-> name, basis |-> BoxableBasisNew(type, input, freshId)]

\* TnuaController::basis::<B>(name, basis); freshId is the allocation Box::new
\* returns when the replacing branch runs
Basis(current_basis, name, type, input, freshId) ==
    IF IsSome(current_basis) /\ DowncastMut(current_basis.basis, type)
    THEN [current_basis EXCEPT !.name = name, !.basis.input = input]
    ELSE [tag |-> "Some", name |-> name, basis |-> BoxableBasisNew(type, input, freshId)]

\* ---------------------------------------------------------------- driver
\* variants of the driver's loop with a defect
\* an empty slot ends the loop (return in place of skipping the record)
RECURSIVE IterMutReturnsOnNone(_, _, _)
IterMutReturnsOnNone(query, order, log) ==
    IF order = <<>>
    THEN [query |-> query, calls |-> log]
    ELSE LET c == Head(order) IN
         IF IsSome(query[c])
         THEN IterMutReturnsOnNone([query EXCEPT ![c].basis = DynamicBasisApply(@)],
                      Tail(order),
                      Append(log, [char |-> c, type |-> query[c].basis.type,
                                   id |-> query[c].basis.id]))
         ELSE [query |-> query, calls |-> log]

\* apply is invoked for every record, through a placeholder when the slot is empty
RECURSIVE IterMutCallsEvery(_, _, _)
IterMutCallsEvery(query, order, log) ==
    IF order = <<>>
    THEN [query |-> query, calls |-> log]
    ELSE LET c == Head(order) IN
         IF IsSome(query[c])
         THEN IterMutCallsEvery([query EXCEPT ![c].basis = DynamicBasisApply(@)],
                      Tail(order),
                      Append(log, [char |-> c, type |-> query[c].basis.type,
                                   id |-> query[c].basis.id]))
         ELSE IterMutCallsEvery(query, Tail(order),
                      Append(log, [char |-> c, type |-> "None", id |-> 0]))

\* the slot is taken out of the record to apply it (take() for as_mut())
RECURSIVE IterMutTakes(_, _, _)
IterMutTakes(query, order, log) ==
    IF order = <<>>
    THEN [query |-> query, calls |-> log]
    ELSE LET c == Head(order) IN
         IF IsSome(query[c])
         THEN IterMutTakes([query EXCEPT ![c] = None],
                      Tail(order),
                      Append(log, [char |-> c, type |-> query[c].basis.type,
                                   id |-> query[c].basis.id]))
         ELSE IterMutTakes(query, Tail(order), log)

\* only the first record the query yields is looked at
IterMutFirstOnly(query, order, log) ==
    IF order = <<>>
    THEN [query |-> query, calls |-> log]
    ELSE LET c == Head(order) IN
         IF IsSome(query[c])
         THEN [query |-> [query EXCEPT ![c].basis = DynamicBasisApply(@)],
               calls |-> Append(log, [char |-> c, type |-> query[c].basis.type,
                                      id |-> query[c].basis.id])]
         ELSE [query |-> query, calls |-> log]

\* apply is invoked twice on every held strategy
RECURSIVE IterMutAppliesTwice(_, _, _)
IterMutAppliesTwice(query, order, log) ==
    IF order = <<>>
    THEN [query |-> query, calls |-> log]
    ELSE LET c == Head(order) IN
         IF IsSome(query[c])
         THEN IterMutAppliesTwice(
                      [query EXCEPT ![c].basis = DynamicBasisApply(DynamicBasisApply(@))],
                      Tail(order),
                      Append(Append(log, [char |-> c, type |-> query[c].basis.type,
                                          id |-> query[c].basis.id]),
                             [char |-> c, type |-> query[c].basis.type,
                              id |-> query[c].basis.id]))
         ELSE IterMutAppliesTwice(query, Tail(order), log)

\* for (mut controller,) in query.iter_mut() { ... basis.apply() ... }
\* order is the order in which the query yields the characters
RECURSIVE IterMut(_, _, _)
IterMut(query, order, log) ==
    IF order = <<>>
    THEN [query |-> query, calls |-> log]
    ELSE LET c == Head(order) IN
         IF IsSome(query[c])
         THEN IterMut([query EXCEPT ![c].basis = DynamicBasisApply(@)],
                      Tail(order),
                      Append(log, [char |-> c, type |-> query[c].basis.type,
                                   id |-> query[c].basis.id]))
         ELSE IterMut(query, Tail(order), log)

\* variants of apply_controller_system with a defect
\* the zero-duration guard is missing
ApplyControllerSystemNoGuard(frame_duration, query, order) ==
    IterMut(query, order, <<>>)

\* the guard tests the wrong way round
ApplyControllerSystemGuardInverted(frame_duration, query, order) ==
    IF frame_duration # 0
    THEN [query |-> query, calls |-> <<>>]
    ELSE IterMut(query, order, <<>>)

\* a frame of zero duration resets every record
ApplyControllerSystemClearsOnZero(frame_duration, query, order) ==
    IF frame_duration = 0
    THEN [query |-> [c \in Chars |-> None], calls |-> <<>>]
    ELSE IterMut(query, order, <<>>)

\* apply_controller_system(time, query)
ApplyControllerSystem(frame_duration, query, order) ==
    IF frame_duration = 0
    THEN [query |-> query, calls |-> <<>>]
    ELSE IterMut(query, order, <<>>)

\* ---------------------------------------------------------------- ui selectors
SomeOf(v) == [tag |-> "Some", v |-> v]

\* the indices of a combo's options
Options == 0..(NumOptions - 1)

\* impl Default for CommandAlteringSelectors
CommandAlteringSelectorsDefault == <<>>

\* CommandAlteringSelectors::with_combo(caption, initial, options); initial is
\* stored as it is given, whatever the number of options
WithCombo(self, initial) ==
    Append(self, [kind |-> "Combo", chosen |-> 0, set_to |-> SomeOf(initial)])

\* CommandAlteringSelectors::with_checkbox(caption, initial, applier)
WithCheckbox(self, initial) ==
    Append(self, [kind |-> "Checkbox", checked |-> FALSE, set_to |-> SomeOf(initial)])

\* ui_system, first loop: every selector whose set_to is Some takes it, stores
\* it as chosen/checked and invokes the applier for it.  A combo indexes its
\* options with the value taken (line 199): an index that is no option panics
\* there, after chosen was written and before any applier ran, and the loop
\* and the system end
RECURSIVE SetToPhase(_, _, _, _)
SetToPhase(sels, i, log, frame) ==
    IF i > Len(sels)
    THEN [sels |-> sels, log |-> log, panicked |-> FALSE]
    ELSE LET sel == sels[i] IN
         IF sel.set_to.tag = "Some"
         THEN LET v == sel.set_to.v
                  done == IF sel.kind = "Combo"
                          THEN [sel EXCEPT !.chosen = v, !.set_to = None]
                          ELSE [sel EXCEPT !.checked = v, !.set_to = None]
              IN IF sel.kind = "Combo" /\ v \notin Options
                 THEN [sels |-> [sels EXCEPT ![i] = done], log |-> log,
                       panicked |-> TRUE]
                 ELSE SetToPhase([sels EXCEPT ![i] = done], i + 1,
                                 Append(log, [sel |-> i, arg |-> v,
                                              via |-> "set_to", frame |-> frame]),
                                 frame)
         ELSE SetToPhase(sels, i + 1, log, frame)

\* ui_system, the selectors inside the entity's collapsing header: pick is the
\* option the user selected in a combo box (None: no option was clicked),
\* clicked tells whether the user clicked a checkbox
RECURSIVE SelectorsUi(_, _, _, _, _, _)
SelectorsUi(sels, i, log, pick, clicked, frame) ==
    IF i > Len(sels)
    THEN [sels |-> sels, log |-> log]
    ELSE LET sel == sels[i] IN
         IF sel.kind = "Combo"
         THEN LET selected_idx == IF pick.tag = "Some" THEN pick.v ELSE sel.chosen IN
              IF selected_idx # sel.chosen
              THEN SelectorsUi([sels EXCEPT ![i].chosen = selected_idx], i + 1,
                               Append(log, [sel |-> i, arg |-> selected_idx,
                                            via |-> "user", frame |-> frame]),
                               pick, clicked, frame)
              ELSE SelectorsUi(sels, i + 1, log, pick, clicked, frame)
         ELSE IF clicked
              THEN SelectorsUi([sels EXCEPT ![i].checked = ~sel.checked], i + 1,
                               Append(log, [sel |-> i, arg |-> ~sel.checked,
                                            via |-> "user", frame |-> frame]),
                               pick, clicked, frame)
              ELSE SelectorsUi(sels, i + 1, log, pick, clicked, frame)

\* no selectors: the entity carries CommandAlteringSelectors::default()
SelIdle ==
    /\ selectors = CommandAlteringSelectorsDefault
    /\ built = <<>>
    /\ applied = <<>>
    /\ uiFrames = 0
    /\ panicked = FALSE

\* ---------------------------------------------------------------- ui sliders
\* an f32: a finite number or infinity
Inf == [kind |-> "inf"]
Fin(v) == [kind |-> "fin", v |-> v]
IsFinite(x) == x.kind = "fin"

\* egui's memory.data holds temporary values under (type, widget id); each of
\* the two widget functions declares a CachedValue type of its own
CachedValueOfInfinity == "slider_or_infinity::CachedValue"
CachedValueOfNone == "slider_or_none::CachedValue"

\* memory.data.get_temp(id)
GetTemp(memory, key) ==
    IF key \in DOMAIN memory THEN SomeOf(memory[key]) ELSE None

\* memory.data.insert_temp(id, value)
InsertTemp(memory, key, v) ==
    [k \in DOMAIN memory \cup {key} |-> IF k = key THEN v ELSE memory[k]]

\* memory.data.get_temp_mut_or(id, value): inserts value when the key is absent
GetTempMutOr(memory, key, v) ==
    IF key \in DOMAIN memory THEN memory ELSE InsertTemp(memory, key, v)

\* slider_or_infinity(ui, caption, value, range) for one frame.  id is
\* resp.id, the id egui gave the toggle in this frame; clicked: the toggle was
\* clicked; drag: the value the user dragged the enabled slider to, if any
SliderOrInfinity(value, memory, id, range, clicked, drag) ==
    LET key == <<CachedValueOfInfinity, id>>
        \* toggle_value flips the flag when it is clicked
        infinite == IF clicked THEN IsFinite(value) ELSE ~IsFinite(value)
        afterClick ==
            IF ~clicked THEN [value |-> value, memory |-> memory]
            ELSE IF infinite
                 THEN [value |-> Inf, memory |-> InsertTemp(memory, key, value.v)]
                 ELSE LET saved == GetTemp(memory, key) IN
                      [value |-> IF saved.tag = "Some"
                                 THEN Fin(saved.v) ELSE Fin(range.end),
                       memory |-> memory]
    IN IF infinite
       THEN \* the disabled slider works on a copy of the cached value
            [afterClick EXCEPT !.memory = GetTempMutOr(@, key, range.end)]
       ELSE [afterClick EXCEPT
                !.value = IF drag.tag = "Some" THEN Fin(drag.v) ELSE @]

\* slider_or_none(ui, caption, value, range) for one frame
SliderOrNone(value, memory, id, range, clicked, drag) ==
    LET key == <<CachedValueOfNone, id>>
        is_none == IF clicked THEN value.tag = "Some" ELSE value.tag = "None"
        afterClick ==
            IF ~clicked THEN [value |-> value, memory |-> memory]
            ELSE IF is_none
                 THEN [value |-> None, memory |-> InsertTemp(memory, key, value.v)]
                 ELSE LET saved == GetTemp(memory, key) IN
                      [value |-> IF saved.tag = "Some"
                                 THEN SomeOf(saved.v) ELSE SomeOf(range.start),
                       memory |-> memory]
    IN IF afterClick.value.tag = "Some"
       THEN [afterClick EXCEPT
                !.value = IF drag.tag = "Some" THEN SomeOf(drag.v) ELSE @]
       ELSE [afterClick EXCEPT !.memory = GetTempMutOr(@, key, range.start)]

\* TnuaFreeFallBehavior, by variant
FreeFallBehaviors == {"ExtraGravity", "LikeJumpShorten", "LikeJumpFall"}

\* what the body of an entity's collapsing header adds to its ui, in source
\* order (lines 241-406)
Body == <<
    [line |-> 241, kind |-> "Slider"],
    [line |-> 245, kind |-> "Slider"],
    [line |-> 251, kind |-> "Selectors"],
    [line |-> 278, kind |-> "Slider"],
    [line |-> 282, kind |-> "Slider"],
    [line |-> 289, kind |-> "Slider"],
    [line |-> 296, kind |-> "Slider"],
    [line |-> 303, kind |-> "SliderOrInfinity", range |-> [start |-> 0, end |-> 200]],
    [line |-> 304, kind |-> "SliderOrInfinity", range |-> [start |-> 0, end |-> 200]],
    [line |-> 305, kind |-> "Slider"],
    [line |-> 312, kind |-> "Slider"],
    [line |-> 313, kind |-> "SliderOrNone", range |-> [start |-> 0, end |-> 2]],
    [line |-> 314, kind |-> "Slider"],
    [line |-> 321, kind |-> "Slider"],
    [line |-> 328, kind |-> "SliderOrInfinity", range |-> [start |-> 0, end |-> 20]],
    [line |-> 329, kind |-> "Slider"],
    [line |-> 336, kind |-> "Slider"],
    [line |-> 344, kind |-> "Slider"],
    [line |-> 352, kind |-> "Slider"],
    [line |-> 377, kind |-> "FreeFallCombo"],
    [line |-> 387, kind |-> "ExtraGravitySlider"],
    [line |-> 392, kind |-> "SliderOrInfinity", range |-> [start |-> 0, end |-> 20]],
    [line |-> 393, kind |-> "SliderOrInfinity", range |-> [start |-> 0, end |-> 2000]],
    [line |-> 395, kind |-> "SliderOrInfinity", range |-> [start |-> 0, end |-> 70]],
    [line |-> 397, kind |-> "Slider"],
    [line |-> 404, kind |-> "SliderOrInfinity", range |-> [start |-> 0, end |-> 40]],
    [line |-> 406, kind |-> "EditWithUi"] >>

\* the call sites of slider_or_infinity and of slider_or_none, named by line
InfinitySites == {Body[i].line : i \in {j \in DOMAIN Body :
                                          Body[j].kind = "SliderOrInfinity"}}
NoneSites == {Body[i].line : i \in {j \in DOMAIN Body :
                                      Body[j].kind = "SliderOrNone"}}
Sites == InfinitySites \cup NoneSites

RangeOf(s) == Body[CHOOSE i \in DOMAIN Body : Body[i].line = s].range

\* whether the field a site edits holds a number (finite, resp. Some)
IsPresent(s, x) == IF s \in InfinitySites THEN IsFinite(x) ELSE x.tag = "Some"

\* the field holding number v, and the field toggled: infinity, resp. None
Present(s, v) == IF s \in InfinitySites THEN Fin(v) ELSE SomeOf(v)
Absent(s) == IF s \in InfinitySites THEN Inf ELSE None

\* the memory key of a site whose toggle has the id
KeyOf(s, id) ==
    <<IF s \in InfinitySites THEN CachedValueOfInfinity ELSE CachedValueOfNone, id>>

\* the body of the header for one frame, from its i-th part on.  egui derives
\* the id of a widget from the ui it is added to and the number of widgets
\* added to that ui before it in the frame: next_auto_id counts them.  st holds
\* the selectors, the applier log, the config, the temp memory and the id each
\* site's toggle got; inp is what the pointer did
RECURSIVE ShowBody(_, _, _, _)
ShowBody(i, next_auto_id, st, inp) ==
    IF i > Len(Body) THEN st
    ELSE LET w == Body[i] IN
         IF w.kind = "Selectors"
         THEN LET r == SelectorsUi(st.sels, 1, st.log, inp.pick, inp.clicked,
                                   inp.frame)
              IN ShowBody(i + 1, next_auto_id + Len(st.sels),
                          [st EXCEPT !.sels = r.sels, !.log = r.log], inp)
         ELSE IF w.kind = "FreeFallCombo"
         THEN \* lines 381-383: a clicked label assigns its variant
              ShowBody(i + 1, next_auto_id + 1,
                       [st EXCEPT !.freeFall = IF inp.ff.tag = "Some"
                                               THEN inp.ff.v ELSE @], inp)
         ELSE IF w.kind = "ExtraGravitySlider"
         THEN \* line 386: added only while the behaviour is ExtraGravity
              ShowBody(i + 1,
                       IF st.freeFall = "ExtraGravity"
                       THEN next_auto_id + 1 ELSE next_auto_id,
                       st, inp)
         ELSE IF w.kind \in {"SliderOrInfinity", "SliderOrNone"}
         THEN LET clicked == inp.toggle = SomeOf(w.line)
                  drag == IF inp.drag.tag = "Some" /\ inp.drag.v.site = w.line
                          THEN SomeOf(inp.drag.v.to) ELSE None
                  r == IF w.kind = "SliderOrInfinity"
                       THEN SliderOrInfinity(st.config[w.line], st.memory,
                                             next_auto_id, w.range, clicked, drag)
                       ELSE SliderOrNone(st.config[w.line], st.memory,
                                         next_auto_id, w.range, clicked, drag)
              IN ShowBody(i + 1, next_auto_id + 1,
                          [st EXCEPT !.config[w.line] = r.value,
                                     !.memory = r.memory,
                                     !.ids[w.line] = next_auto_id], inp)
         ELSE ShowBody(i + 1, next_auto_id + 1, st, inp)

\* the temp memory before any frame, and a config whose fields all show as
\* toggled
SliderIdle ==
    /\ config = [s \in Sites |-> Absent(s)]
    /\ freeFall = "ExtraGravity"
    /\ memory_data = <<>>
    /\ sLast = [open |-> FALSE, toggle |-> None, ids |-> [s \in Sites |-> 0]]
    /\ sPrev = <<>>
    /\ sBefore = [s \in Sites |-> None]

\* ---------------------------------------------------------------- schedule
Init ==
    /\ SelIdle
    /\ SliderIdle
    /\ controllers = [c \in Chars |-> TnuaControllerDefault]
    /\ allocs = [c \in Chars |-> 0]
    /\ delta = 0
    /\ stage = "Idle"
    /\ tick = 0
    /\ reqs = 0
    /\ calls = <<>>
    /\ last = [op |-> "init", at |-> "Idle"]
    /\ prev = [c \in Chars |-> TnuaControllerDefault]
    /\ since = [c \in Chars |-> 0]
    /\ discarded = {}
    /\ passes = 0

\* a new frame starts: the time resource is updated, then Update runs
BeginFrame(d) ==
    /\ stage = "Idle"
    /\ tick < MaxTicks
    /\ stage' = "Sensors"
    /\ delta' = d
    /\ tick' = tick + 1
    /\ calls' = <<>>
    /\ last' = [op |-> "begin", at |-> stage]
    /\ prev' = controllers
    /\ UNCHANGED <<controllers, allocs, reqs, since, discarded, passes>>
    /\ UNCHANGED <<selVars, sliderVars>>

\* TnuaPipelineStages::Sensors
RunSensors ==
    /\ stage = "Sensors"
    /\ stage' = "SubservientSensors"
    /\ last' = [op |-> "sensors", at |-> stage]
    /\ prev' = controllers
    /\ calls' = <<>>
    /\ UNCHANGED <<controllers, allocs, delta, tick, reqs, since,
                   discarded, passes>>
    /\ UNCHANGED <<selVars, sliderVars>>

\* TnuaPipelineStages::SubservientSensors
RunSubservientSensors ==
    /\ stage = "SubservientSensors"
    /\ stage' = "UserControls"
    /\ last' = [op |-> "subservient", at |-> stage]
    /\ prev' = controllers
    /\ calls' = <<>>
    /\ UNCHANGED <<controllers, allocs, delta, tick, reqs, since,
                   discarded, passes>>
    /\ UNCHANGED <<selVars, sliderVars>>

\* the slot is one value shared by all characters instead of one per record
UserBasisShared(c, name, type, input) ==
    /\ reqs < MaxReqs
    /\ LET fresh == <<c, allocs[c] + 1>>
           new == Basis(controllers[c], name, type, input, fresh) IN
         /\ controllers' = [x \in Chars |-> new]
         /\ allocs' = IF new.basis.id = fresh
                      THEN [allocs EXCEPT ![c] = @ + 1] ELSE allocs
    /\ reqs' = reqs + 1
    /\ last' = [op |-> "basis", at |-> stage, char |-> c, name |-> name,
                type |-> type, input |-> input]
    /\ prev' = controllers
    /\ calls' = <<>>
    /\ UNCHANGED <<delta, stage, tick, since, discarded, passes>>
    /\ UNCHANGED <<selVars, sliderVars>>

\* some system calls controller.basis(name, basis); the method is callable
\* whatever the stage, also between frames
UserBasis(c, name, type, input) ==
    /\ reqs < MaxReqs
    /\ LET fresh == <<c, allocs[c] + 1>>
           new == Basis(controllers[c], name, type, input, fresh) IN
         /\ controllers' = [controllers EXCEPT ![c] = new]
         /\ allocs' = IF new.basis.id = fresh
                      THEN [allocs EXCEPT ![c] = @ + 1] ELSE allocs
         \* line 49: assigning the slot drops the box it held
         /\ discarded' =
               IF IsSome(controllers[c]) /\ new.basis.id # controllers[c].basis.id
               THEN {b \in discarded :
                        b.char # c \/ b.type # controllers[c].basis.type}
                    \cup {[char |-> c, type |-> controllers[c].basis.type,
                           state |-> controllers[c].basis.state]}
               ELSE discarded
    /\ since' = IF IsSome(controllers[c]) /\ controllers[c].basis.type = type
                THEN since ELSE [since EXCEPT ![c] = 0]
    /\ reqs' = reqs + 1
    /\ last' = [op |-> "basis", at |-> stage, char |-> c, name |-> name,
                type |-> type, input |-> input]
    /\ prev' = controllers
    /\ calls' = <<>>
    /\ UNCHANGED <<delta, stage, tick, passes>>
    /\ UNCHANGED <<selVars, sliderVars>>

\* the user-controls stage ends; the chain proceeds to Logic
EndUserControls ==
    /\ stage = "UserControls"
    /\ stage' = "Logic"
    /\ last' = [op |-> "controls", at |-> stage]
    /\ prev' = controllers
    /\ calls' = <<>>
    /\ UNCHANGED <<controllers, allocs, delta, tick, reqs, since,
                   discarded, passes>>
    /\ UNCHANGED <<selVars, sliderVars>>

\* apply_controller_system is added to the user-controls set instead of Logic
RunLogicInUserControls(order) ==
    /\ stage \in {"UserControls", "Logic"}
    /\ LET r == ApplyControllerSystem(delta, controllers, order) IN
         /\ controllers' = r.query
         /\ calls' = r.calls
    /\ stage' = IF stage = "Logic" THEN "Motors" ELSE stage
    /\ last' = [op |-> "driver", at |-> stage]
    /\ prev' = controllers
    /\ passes' = passes + 1
    /\ UNCHANGED <<allocs, delta, tick, reqs, since, discarded>>
    /\ UNCHANGED <<selVars, sliderVars>>

\* TnuaPipelineStages::Logic runs apply_controller_system
RunLogic(order) ==
    /\ stage = "Logic"
    /\ LET r == ApplyControllerSystem(delta, controllers, order) IN
         /\ controllers' = r.query
         /\ calls' = r.calls
    /\ stage' = "Motors"
    /\ last' = [op |-> "driver", at |-> stage]
    /\ prev' = controllers
    /\ since' = [c \in Chars |->
                    IF delta # 0 /\ IsSome(controllers[c])
                    THEN since[c] + 1 ELSE since[c]]
    /\ passes' = passes + 1
    /\ UNCHANGED <<allocs, delta, tick, reqs, discarded>>
    /\ UNCHANGED <<selVars, sliderVars>>

\* TnuaPipelineStages::Motors; the frame ends
RunMotors ==
    /\ stage = "Motors"
    /\ stage' = "Idle"
    /\ last' = [op |-> "motors", at |-> stage]
    /\ prev' = controllers
    /\ calls' = <<>>
    /\ UNCHANGED <<controllers, allocs, delta, tick, reqs, since,
                   discarded, passes>>
    /\ UNCHANGED <<selVars, sliderVars>>

Next ==
    \/ \E d \in Durations : BeginFrame(d)
    \/ RunSensors
    \/ RunSubservientSensors
    \/ \E c \in Chars, name \in Names, b \in Bases :
           UserBasis(c, name, b[1], b[2])
    \/ EndUserControls
    \/ \E order \in Orders : RunLogic(order)
    \/ RunMotors

Spec == Init /\ [][Next]_vars

TypeOK ==
    /\ \A c \in Chars :
          \/ controllers[c] = None
          \/ /\ controllers[c].tag = "Some"
             /\ controllers[c].name \in Names
             /\ controllers[c].basis.type \in Types
             /\ controllers[c].basis.input \in Configs
             /\ controllers[c].basis.state \in 0..MaxTicks
             /\ controllers[c].basis.id \in {c} \X (1..allocs[c])
    /\ \A c \in Chars : allocs[c] \in 0..reqs
    /\ delta \in Durations
    /\ tick \in 0..MaxTicks
    /\ reqs \in 0..MaxReqs
    /\ passes \in 0..tick

\* ---------------------------------------------------------------- properties
\* the record the last basis request was made on, before and after the request
Old == prev[last.char]
New == controllers[last.char]

IsBasisStep  == last.op = "basis"
IsDriverStep == last.op = "driver"

\* how many times the latest driver pass invoked apply on character c
CallsOn(c) == Cardinality({k \in DOMAIN calls : calls[k].char = c})

\* the allocations held by the records of a query
IdsOf(query) == {query[c].basis.id : c \in {x \in Chars : IsSome(query[x])}}

\* C1: a basis request of the type the slot already holds updates in place: the
\* slot keeps the same strategy instance and its running state, the input
\* becomes the requested configuration and the name the requested name
C1_SameTypeUpdatesInPlace ==
    (IsBasisStep /\ IsSome(Old) /\ Old.basis.type = last.type) =>
        /\ IsSome(New)
        /\ New.basis.id = Old.basis.id
        /\ New.basis.state = Old.basis.state
        /\ New.basis.type = Old.basis.type
        /\ New.basis.input = last.input
        /\ New.name = last.name

C1_Witness ==
    /\ IsBasisStep /\ IsSome(Old) /\ Old.basis.type = last.type
    /\ Old.basis.state > 0
    /\ Old.basis.input # last.input
    /\ New.basis.state = Old.basis.state
    /\ New.basis.input = last.input

\* C2: a basis request on an empty slot or on a slot holding another type
\* replaces the slot by a freshly constructed strategy of the requested type
\* with the requested configuration, zeroed running state and the requested
\* name; the previous strategy is held by no record afterwards
C2_OtherTypeReplaces ==
    (IsBasisStep /\ (~IsSome(Old) \/ Old.basis.type # last.type)) =>
        /\ New = [tag |-> "Some", name |-> last.name,
                  basis |-> [type |-> last.type, input |-> last.input,
                             state |-> 0,
                             id |-> <<last.char, allocs[last.char]>>]]
        /\ New.basis.id \notin IdsOf(prev)
        /\ IsSome(Old) => Old.basis.id \notin IdsOf(controllers)

C2_Witness ==
    /\ IsBasisStep /\ IsSome(Old) /\ Old.basis.type # last.type
    /\ Old.basis.state > 0
    /\ New.basis.state = 0
    /\ New.basis.type = last.type

\* C3: a driver pass whose frame duration is zero invokes apply on no
\* character and changes no controller record
C3_ZeroDurationSkipsAll ==
    (IsDriverStep /\ delta = 0) => (calls = <<>> /\ controllers = prev)

C3_Witness ==
    /\ IsDriverStep /\ delta = 0
    /\ \A c \in Chars : IsSome(controllers[c])
    /\ calls = <<>>

\* C4: a driver pass with a non-zero frame duration invokes apply exactly once
\* on every character that holds a basis and never on a character that holds
\* none
C4_NonZeroAdvancesEachOnce ==
    (IsDriverStep /\ delta # 0) =>
        \A c \in Chars :
            /\ CallsOn(c) = IF IsSome(prev[c]) THEN 1 ELSE 0
            /\ IsSome(prev[c]) =>
                  controllers[c].basis.state = prev[c].basis.state + 1

C4_Witness ==
    /\ IsDriverStep /\ delta # 0
    /\ \E c, d \in Chars : IsSome(prev[c]) /\ ~IsSome(prev[d])
                           /\ CallsOn(c) = 1 /\ CallsOn(d) = 0

\* C5: a basis request made in a frame of zero duration takes effect on the
\* slot as in any other frame; the driver pass of that frame advances nothing,
\* and a driver pass of non-zero duration advances the slot as the requests
\* left it
C5_ZeroDurationRequestApplies ==
    /\ (IsBasisStep /\ delta = 0) =>
          /\ IsSome(New)
          /\ New.name = last.name
          /\ New.basis.type = last.type
          /\ New.basis.input = last.input
          /\ IF IsSome(Old) /\ Old.basis.type = last.type
             THEN New.basis.state = Old.basis.state /\ New.basis.id = Old.basis.id
             ELSE New.basis.state = 0 /\ New.basis.id \notin IdsOf(prev)
    /\ (IsDriverStep /\ delta = 0) =>
          \A c \in Chars : controllers[c] = prev[c] /\ CallsOn(c) = 0
    /\ (IsDriverStep /\ delta # 0) =>
          \A c \in Chars :
              IsSome(prev[c]) =>
                  controllers[c] = [prev[c] EXCEPT !.basis.state = @ + 1]

C5_Witness ==
    /\ IsBasisStep /\ delta = 0
    /\ IsSome(Old) /\ Old.basis.state > 0
    /\ Old.name # last.name
    /\ New.name = last.name
    /\ New.basis.input = last.input

\* C6: a controller starts with an empty slot; a driver pass of any duration
\* leaves an empty slot empty and invokes apply on no character whose slot
\* is empty; an empty slot is filled only by a basis request on that character
C6_EmptySlotUntouched ==
    /\ reqs = 0 => \A c \in Chars : controllers[c] = None
    /\ IsDriverStep =>
          \A c \in Chars :
              ~IsSome(prev[c]) => (controllers[c] = None /\ CallsOn(c) = 0)
    /\ \A c \in Chars :
          (~IsSome(prev[c]) /\ IsSome(controllers[c])) =>
              (IsBasisStep /\ last.char = c)

C6_Witness ==
    /\ IsDriverStep /\ delta # 0 /\ tick > 1
    /\ \E c, d \in Chars : controllers[c] = None /\ IsSome(controllers[d])
                           /\ CallsOn(c) = 0 /\ CallsOn(d) = 1

\* the allocations that have been made and are held by no record any more
Dropped == {id \in Chars \X (1..MaxReqs) : id[2] <= allocs[id[1]]}
               \ IdsOf(controllers)

\* C7: a basis request of another type than the one held replaces the held
\* strategy by one of the requested type; every apply of a driver pass runs on
\* the strategy the slot holds, with that strategy's type, and never on a
\* dropped one; between requests of another type the held strategy and its
\* type stay the same
C7_SwitchedTypeIsWhatAdvances ==
    /\ (IsBasisStep /\ IsSome(Old) /\ Old.basis.type # last.type) =>
          /\ New.basis.type = last.type
          /\ New.basis.id # Old.basis.id
          /\ Old.basis.id \in Dropped
    /\ IsDriverStep =>
          \A k \in DOMAIN calls :
              /\ IsSome(prev[calls[k].char])
              /\ calls[k].type = prev[calls[k].char].basis.type
              /\ calls[k].id = prev[calls[k].char].basis.id
              /\ calls[k].id \notin Dropped
    /\ \A c \in Chars :
          (/\ IsSome(prev[c])
           /\ \/ ~IsSome(controllers[c])
              \/ controllers[c].basis.type # prev[c].basis.type
              \/ controllers[c].basis.id # prev[c].basis.id) =>
              (IsBasisStep /\ last.char = c /\ last.type # prev[c].basis.type)

\* a driver pass advances a strategy that replaced one of another type: the
\* only other record is empty, so both allocations were made for this one
C7_Witness ==
    /\ IsDriverStep /\ delta # 0
    /\ \E c, d \in Chars :
          /\ controllers[d] = None
          /\ IsSome(controllers[c])
          /\ allocs[c] = 2
          /\ calls = <<[char |-> c, type |-> controllers[c].basis.type,
                        id |-> <<c, 2>>]>>
          /\ Dropped = {<<c, 1>>}

\* C8: a basis request never fails: whatever the slot held, after the call
\* it holds a strategy of the requested type with the requested configuration
\* under the requested name
C8_BasisAlwaysSucceeds ==
    IsBasisStep =>
        /\ IsSome(New)
        /\ New.basis.type = last.type
        /\ New.basis.input = last.input
        /\ New.name = last.name

C8_Witness ==
    /\ IsBasisStep /\ Old = None
    /\ IsSome(New)
    /\ New.basis.type = last.type
    /\ New.name = last.name

\* C9: a record holds nothing or exactly one (name, strategy) pair, and the
\* name decides nothing: a request updates in place exactly when the held
\* type is the requested one, whatever the names, and a driver pass of
\* non-zero duration advances every held strategy whatever its name
C9_NameNeverDispatches ==
    /\ \A c \in Chars :
          \/ controllers[c] = None
          \/ /\ DOMAIN controllers[c] = {"tag", "name", "basis"}
             /\ controllers[c].tag = "Some"
             /\ controllers[c].name \in Names
             /\ controllers[c].basis.type \in Types
    /\ (IsBasisStep /\ IsSome(Old)) =>
          IF Old.basis.type = last.type
          THEN New.basis.id = Old.basis.id /\ New.basis.state = Old.basis.state
          ELSE New.basis.id # Old.basis.id /\ New.basis.state = 0
    /\ (IsDriverStep /\ delta # 0) =>
          \A c \in Chars, n \in Names :
              (IsSome(prev[c]) /\ prev[c].name = n) => CallsOn(c) = 1

C9_Witness ==
    /\ IsBasisStep /\ IsSome(Old)
    /\ Old.basis.type = last.type
    /\ Old.name # last.name
    /\ Old.basis.state > 0
    /\ New.basis.state = Old.basis.state
    /\ New.name = last.name

\* C10: the last basis request wins: after a request the name and the
\* configuration are the requested ones, and they stay so until the next
\* request on that character; and a request repeated leaves the record as
\* the first one left it
C10_LastWinsIdempotent ==
    /\ IsBasisStep => (New.name = last.name /\ New.basis.input = last.input)
    /\ (/\ IsBasisStep /\ IsSome(Old)
        /\ Old.name = last.name
        /\ Old.basis.type = last.type
        /\ Old.basis.input = last.input) => New = Old
    /\ \A c \in Chars :
          (IsSome(prev[c]) /\ ~(IsBasisStep /\ last.char = c)) =>
              /\ controllers[c].name = prev[c].name
              /\ controllers[c].basis.input = prev[c].basis.input
    /\ IsBasisStep =>
          Basis(New, last.name, last.type, last.input,
                <<last.char, allocs[last.char] + 1>>) = New

C10_Witness ==
    /\ IsBasisStep /\ IsSome(Old)
    /\ Old.name = last.name
    /\ Old.basis.type = last.type
    /\ Old.basis.input = last.input
    /\ Old.basis.state = 0
    /\ New = Old

\* C11: a driver pass, of any duration, leaves every record's presence, type,
\* configuration and name as they were; only the running state may differ
C11_DriverKeepsSlotShape ==
    IsDriverStep =>
        \A c \in Chars :
            /\ IsSome(controllers[c]) <=> IsSome(prev[c])
            /\ IsSome(prev[c]) =>
                  /\ controllers[c].name = prev[c].name
                  /\ controllers[c].basis.type = prev[c].basis.type
                  /\ controllers[c].basis.input = prev[c].basis.input
                  /\ controllers[c].basis.id = prev[c].basis.id

C11_Witness ==
    /\ IsDriverStep /\ delta # 0
    /\ \E c \in Chars :
          /\ IsSome(prev[c])
          /\ controllers[c].basis.state # prev[c].basis.state
          /\ controllers[c].basis.input = prev[c].basis.input
          /\ controllers[c].name = prev[c].name

\* the driver passes that have run when the pipeline is at a given stage of
\* frame number t: the pass of frame t runs on leaving Logic
PassesAt(st, t) == IF st \in {"Motors", "Idle"} THEN t ELSE t - 1

\* C12 as stated: the stages run in the fixed order with the driver pass in
\* Logic, and every basis request made within a frame is applied before that
\* frame's driver pass
C12_RequestsPrecedeDriverPass ==
    /\ IsDriverStep => (last.at = "Logic" /\ stage = "Motors")
    /\ (IsBasisStep /\ last.at # "Idle") => passes = tick - 1

\* C12: the stages of a frame run in the order Sensors, SubservientSensors,
\* user controls, Logic, Motors: each stage is entered only from the one
\* before it and a basis request moves no stage; the driver pass runs once a
\* frame, on leaving Logic, so it is complete when Motors starts; every basis
\* request made in the user-controls stage, or earlier in the frame, precedes
\* the frame's driver pass.  A request made after Logic is not so ordered.
C12_PipelineOrder ==
    /\ last.op = "init" => stage = "Idle"
    /\ last.op = "begin" => (last.at = "Idle" /\ stage = "Sensors")
    /\ last.op = "sensors" => (last.at = "Sensors" /\ stage = "SubservientSensors")
    /\ last.op = "subservient" =>
          (last.at = "SubservientSensors" /\ stage = "UserControls")
    /\ last.op = "controls" => (last.at = "UserControls" /\ stage = "Logic")
    /\ last.op = "driver" => (last.at = "Logic" /\ stage = "Motors")
    /\ last.op = "motors" => (last.at = "Motors" /\ stage = "Idle")
    /\ last.op = "basis" => stage = last.at
    /\ passes = PassesAt(stage, tick)
    /\ (IsBasisStep /\ last.at \in {"Sensors", "SubservientSensors",
                                    "UserControls", "Logic"}) =>
          passes = tick - 1

\* the second frame's driver pass, after a request in each frame's
\* user-controls stage, has advanced both characters and Motors is next
C12_Witness ==
    /\ stage = "Motors" /\ IsDriverStep /\ last.at = "Logic"
    /\ tick = 2 /\ delta # 0 /\ passes = 2
    /\ reqs = 2
    /\ Len(calls) = 2

\* C13: the records are independent: a basis request on one character leaves
\* every other record as it was, and what a driver pass does to a record is
\* what it does when that record is the only one that holds a basis
C13_RecordsIndependent ==
    /\ IsBasisStep =>
          \A c \in Chars \ {last.char} : controllers[c] = prev[c]
    /\ IsDriverStep =>
          \A c \in Chars, o \in Orders :
              controllers[c] =
                  ApplyControllerSystem(delta,
                      [x \in Chars |-> IF x = c THEN prev[c] ELSE None], o).query[c]

C13_Witness ==
    /\ IsBasisStep
    /\ New # Old
    /\ \E c \in Chars \ {last.char} :
          /\ IsSome(controllers[c])
          /\ controllers[c].basis.state > 0
          /\ controllers[c] = prev[c]
          /\ controllers[c].basis.type # New.basis.type

\* C14: the records a driver pass of non-zero duration leaves do not depend
\* on the order in which the characters are visited
C14_OrderIrrelevant ==
    (IsDriverStep /\ delta # 0) =>
        \A o \in Orders :
            ApplyControllerSystem(delta, prev, o).query = controllers

C14_Witness ==
    /\ IsDriverStep /\ delta # 0
    /\ \A c \in Chars : IsSome(prev[c])
    /\ \E c, d \in Chars : prev[c].basis.state # prev[d].basis.state
    /\ Len(calls) = 2

\* C15: the running state of the strategy a slot holds counts the driver
\* passes of non-zero duration since a request last found the slot empty or
\* of another type; requests of the held type and passes of zero duration
\* neither add to the count nor reset it
C15_StateCountsNonZeroTicks ==
    \A c \in Chars :
        IsSome(controllers[c]) => controllers[c].basis.state = since[c]

\* walk 5 and a tick, walk 7 and a tick, walk 7 and a tick of zero duration
C15_Witness ==
    /\ IsDriverStep /\ delta = 0
    /\ tick = 3 /\ reqs = 3
    /\ \E c \in Chars :
          /\ allocs[c] = 1
          /\ controllers[c] = [tag |-> "Some", name |-> "walk",
                               basis |-> [type |-> "Walk", input |-> 7,
                                          state |-> 2, id |-> <<c, 1>>]]

\* C16: a request of type T on a slot that holds another type, after a T
\* strategy of this character was discarded, leaves a T strategy with zeroed
\* running state in a new allocation, whatever state the discarded one had
C16_NoResurrection ==
    (/\ IsBasisStep /\ IsSome(Old) /\ Old.basis.type # last.type
     /\ \E b \in discarded : b.char = last.char /\ b.type = last.type) =>
        /\ New.basis.type = last.type
        /\ New.basis.state = 0
        /\ New.basis.id # Old.basis.id
        /\ New.basis.id = <<last.char, allocs[last.char]>>

C16_Witness ==
    /\ IsBasisStep /\ IsSome(Old) /\ Old.basis.type # last.type
    /\ \E b \in discarded :
          b.char = last.char /\ b.type = last.type /\ b.state > 0
    /\ New.basis.type = last.type
    /\ New.basis.state = 0

\* C17: no operation empties a slot: a record that held a strategy before an
\* operation holds one after it
C17_FilledStaysFilled ==
    \A c \in Chars : IsSome(prev[c]) => IsSome(controllers[c])

C17_Witness ==
    /\ IsDriverStep /\ delta = 0 /\ tick = 3
    /\ discarded # {}
    /\ \E c \in Chars : IsSome(prev[c]) /\ IsSome(controllers[c])
                        /\ controllers[c].basis.state > 0

\* ---------------------------------------------------------------- ui_system
\* the controller part stays as constructed while the ui is exercised
CtlIdle ==
    /\ controllers = [c \in Chars |-> TnuaControllerDefault]
    /\ allocs = [c \in Chars |-> 0]
    /\ delta = 0
    /\ stage = "Idle"
    /\ tick = 0
    /\ reqs = 0
    /\ calls = <<>>
    /\ last = [op |-> "init", at |-> "Idle"]
    /\ prev = [c \in Chars |-> TnuaControllerDefault]
    /\ since = [c \in Chars |-> 0]
    /\ discarded = {}
    /\ passes = 0

\* an entity spawned with
\* CommandAlteringSelectors::default().with_combo(.., i, ..).with_checkbox(.., b, ..);
\* i is any usize the caller passes, one of them past the last option
InitSelectors ==
    /\ CtlIdle
    /\ SliderIdle
    /\ \E i \in 0..NumOptions, b \in BOOLEAN :
          /\ selectors = WithCheckbox(WithCombo(CommandAlteringSelectorsDefault, i), b)
          /\ built = <<i, b>>
    /\ applied = <<>>
    /\ uiFrames = 0
    /\ panicked = FALSE

\* whether the selectors hold a widget of the kind
HasKind(sels, kind) == \E i \in DOMAIN sels : sels[i].kind = kind

\* one run of ui_system: the set_to loop, then the window.  A panic in the
\* loop ends the run and the app.  The entity's collapsing header shows its
\* body only while it is open.
\* pick, clicked: what the pointer did to the combo box and the checkbox;
\* toggle: the call site whose toggle was clicked; drag: the call site whose
\* enabled slider was dragged, and the value it was dragged to; ff: the free
\* fall behaviour chosen in its combo box.  A widget must exist to be used, a
\* closed header takes no input, and only an enabled slider is dragged
UiSystem(open, pick, clicked, toggle, drag, ff) ==
    /\ uiFrames < MaxUiFrames
    /\ ~panicked
    /\ ~open => /\ pick = None /\ ~clicked
                /\ toggle = None /\ drag = None /\ ff = None
    /\ pick # None => HasKind(selectors, "Combo")
    /\ clicked => HasKind(selectors, "Checkbox")
    /\ drag # None => (toggle = None /\ IsPresent(drag.v.site, config[drag.v.site]))
    /\ LET frame == uiFrames + 1
           first == SetToPhase(selectors, 1, applied, frame)
           before == [sels |-> first.sels, log |-> first.log, config |-> config,
                      freeFall |-> freeFall, memory |-> memory_data,
                      ids |-> sLast.ids]
           inp == [pick |-> pick, clicked |-> clicked, toggle |-> toggle,
                   drag |-> drag, ff |-> ff, frame |-> frame]
       IN \E shown \in {IF open /\ ~first.panicked
                         THEN ShowBody(1, 0, before, inp) ELSE before} :
          /\ selectors' = shown.sels
          /\ applied' = shown.log
          /\ uiFrames' = frame
          /\ panicked' = first.panicked
          /\ config' = shown.config
          /\ freeFall' = shown.freeFall
          /\ memory_data' = shown.memory
          /\ sLast' = [open |-> open /\ ~first.panicked, toggle |-> toggle,
                       ids |-> shown.ids]
          /\ sPrev' = memory_data
          /\ sBefore' = [s \in Sites |->
                            IF toggle = SomeOf(s) /\ IsPresent(s, config[s])
                            THEN SomeOf([value |-> config[s],
                                         memory |-> shown.memory])
                            ELSE sBefore[s]]
    /\ UNCHANGED <<built, ctlVars>>

\* the frames of an entity with a combo box and a checkbox; the pointer works
\* the selectors and leaves the rest of the header alone
NextSelectors ==
    \E open \in BOOLEAN, pick \in {None} \cup {SomeOf(i) : i \in Options},
       clicked \in BOOLEAN :
        UiSystem(open, pick, clicked, None, None, None)

SpecSelectors == InitSelectors /\ [][NextSelectors]_vars

\* the value a field starts with when it holds one, and the value its slider
\* is dragged to
StartValue(s) == IF s \in InfinitySites THEN 5 ELSE 1
DragValue(s) == IF s \in InfinitySites THEN 10 ELSE 2

\* the sliders the pointer drags: one of each widget function
DragSites == {313, 392}

\* the config a frame first shows: every field holds a number but those of
\* absent, which are toggled; nothing is cached yet; the entity carries no
\* selectors
InitSliders ==
    /\ CtlIdle
    /\ SelIdle
    /\ \E absent \in {{}, {313, 393}} :
          config = [s \in Sites |-> IF s \in absent THEN Absent(s)
                                    ELSE Present(s, StartValue(s))]
    /\ freeFall \in FreeFallBehaviors
    /\ memory_data = <<>>
    /\ sLast = [open |-> FALSE, toggle |-> None, ids |-> [s \in Sites |-> 0]]
    /\ sPrev = <<>>
    /\ sBefore = [s \in Sites |-> None]

\* the frames of that entity: the header is closed, or it is open and the
\* pointer does nothing, clicks one toggle, drags one slider or chooses a free
\* fall behaviour
NextSliders ==
    \/ UiSystem(FALSE, None, FALSE, None, None, None)
    \/ UiSystem(TRUE, None, FALSE, None, None, None)
    \/ \E s \in Sites : UiSystem(TRUE, None, FALSE, SomeOf(s), None, None)
    \/ \E s \in DragSites :
          UiSystem(TRUE, None, FALSE, None,
                   SomeOf([site |-> s, to |-> DragValue(s)]), None)
    \/ \E b \in FreeFallBehaviors :
          UiSystem(TRUE, None, FALSE, None, None, SomeOf(b))

SpecSliders == InitSliders /\ [][NextSliders]_vars

\* the applier invocations made for selector i, in order
AppliedTo(i) == SelectSeq(applied, LAMBDA e : e.sel = i)

\* what a selector shows as selected
Current(sel) == IF sel.kind = "Combo" THEN sel.chosen ELSE sel.checked

\* C18: the initial setting of a selector is applied exactly once: before the
\* first frame set_to holds it and no applier has run; from the first frame on
\* set_to is None, the first applier invocation is the one for the initial
\* setting, made in frame 1, every later invocation is caused by the user and
\* is for a setting other than the one before it, and chosen/checked is the
\* setting last applied
C18_InitialAppliedOnce ==
    \A i \in DOMAIN selectors :
        LET sel == selectors[i]
            log == AppliedTo(i)
        IN /\ uiFrames = 0 => (sel.set_to = SomeOf(built[i]) /\ log = <<>>)
           /\ uiFrames > 0 =>
                 /\ sel.set_to = None
                 /\ Len(log) >= 1
                 /\ log[1] = [sel |-> i, arg |-> built[i], via |-> "set_to",
                              frame |-> 1]
                 /\ \A k \in 2..Len(log) :
                       log[k].via = "user" /\ log[k].arg # log[k - 1].arg
                 /\ Current(sel) = log[Len(log)].arg

\* the last frame clicked the toggle of the site and left its field holding a
\* number
ToggledOff(s) == sLast.toggle = SomeOf(s) /\ IsPresent(s, config[s])

\* C19: a field toggled off holds again the number it held when it was
\* toggled on, provided the temp memory before the frame that toggles it off
\* is the memory the frame that toggled it on left; toggled off with nothing
\* cached under the toggle's id, a field holds the range's end
\* (slider_or_infinity) or Some(range's start) (slider_or_none)
C19_ToggleRoundTrips ==
    \A s \in Sites :
        ToggledOff(s) =>
            /\ (sBefore[s].tag = "Some" /\ sPrev = sBefore[s].v.memory) =>
                  config[s] = sBefore[s].v.value
            /\ GetTemp(sPrev, KeyOf(s, sLast.ids[s])).tag = "None" =>
                  config[s] = (IF s \in InfinitySites
                               THEN Present(s, RangeOf(s).end)
                               ELSE Present(s, RangeOf(s).start))
====
